---- MODULE Spec2Model ----
(***************************************************************************)
(* Model of docs/tutorials/earthquake_detection.ipynb: the notebook's code *)
(* cells executed top to bottom, one action per statement (or per loop     *)
(* step) of a cell.  The dataset file, the data module, the pretrained     *)
(* extractor and the trainers are the collaborators the notebook calls.    *)
(***************************************************************************)
EXTENDS Integers, Sequences, FiniteSets, TLC

(* ------------------------------ bounds --------------------------------- *)

\* largest number of items a split of the dataset file may hold
MaxSplit == 20

\* running statistics of the extractor are kept modulo this
StatsMod == 3

(* ------------------------- program constants --------------------------- *)

\* PCT_SAMPLES = 0.1, kept as the fraction PCT_SAMPLES_Num / PCT_SAMPLES_Den
PCT_SAMPLES_Num == 1
PCT_SAMPLES_Den == 10

\* batch_size of the parameter cell and of its nbmake mock
DefaultBatchSize == 4
MockBatchSize == 1

\* max_epochs of the parameter cell and of its nbmake mock
DefaultMaxEpochs == 10
MockMaxEpochs == 1

\* num_workers of the parameter cell and of its nbmake mock
DefaultNumWorkers == 1
MockNumWorkers == 0

\* channels of a QuakeSet image: two pre-event and two post-event
NumChannels == 4
HalfChannels == 2

\* width of the feature vector the extractor returns for one image
EmbWidth == 2

(* ------------------------------ helpers -------------------------------- *)

Splits == {"train", "val", "test"}

Range(s) == {s[i] : i \in 1..Len(s)}

Min(a, b) == IF a < b THEN a ELSE b

IsPrefix(s, t) == Len(s) <= Len(t) /\ \A i \in 1..Len(s) : s[i] = t[i]

\* all orders in which the items of s can be yielded
Perms(s) ==
    {p \in [1..Len(s) -> Range(s)] : \A i, k \in 1..Len(s) : i # k => p[i] # p[k]}

\* sizes a split of the dataset file may have: around the multiples of
\* PCT_SAMPLES_Den, where int(n * PCT_SAMPLES) changes, and the largest size
SplitSizes ==
    {n \in 0..MaxSplit :
        \/ n % PCT_SAMPLES_Den \in {0, PCT_SAMPLES_Den - 1}
        \/ n = MaxSplit}

\* first key of each split in the dataset file
Base(split) ==
    CASE split = "train" -> 100
      [] split = "val" -> 200
      [] split = "test" -> 300

\* the items of the file that may carry the label 1 (an earthquake)
EarthquakeKeys ==
    {Base(s) + i : s \in {"train", "test"}, i \in 1..2}

(* ------------------------------- state --------------------------------- *)

VARIABLES
    pc,          \* the statement the notebook executes next
    raised,      \* the exception that stopped the run, or "none"
    mock,        \* TRUE when run by the smoke test with the nbmake mocks
    params,      \* num_workers, batch_size, max_epochs, fast_dev_run
    fileSizes,   \* the dataset file: number of items of each split
    positives,   \* the dataset file: keys of the items labelled 1
    prepared,    \* prepare_data has downloaded the file
    setupDone,   \* stages the data module has been set up for
    datasets,    \* datamodule.<split>_dataset.data
    sample,      \* the sample handed to plot
    rn_model,    \* state of the pretrained feature extractor
    loader,      \* items the dataloader being iterated has still to yield
    batch,       \* the batch of the current outer-loop iteration
    inferOut,    \* what infer(batch) returned
    zipped,      \* zip(*infer(batch))
    j,           \* pairs of zipped the inner loop has consumed
    embeddings,  \* defaultdict, then dict, of split name -> rows
    labels,      \* defaultdict, then dict, of split name -> labels
    stacked,     \* the merge of line 301-302 has run
    clf,         \* what the classifier was fitted and evaluated on
    task,        \* the deep model's task and the trainer's progress
    yielded,     \* history: keys each dataloader yielded, in order
    stages,      \* history: stages of the tutorial, in the order started
    events       \* history: data-module calls and accesses, in order

vars == <<pc, raised, mock, params, fileSizes, positives, prepared, setupDone,
          datasets, sample, rn_model, loader, batch, inferOut, zipped, j,
          embeddings, labels, stacked, clf, task, yielded, stages, events>>

(* --------------------------- control flow ------------------------------ *)

\* the cells with trainer.test ahead of trainer.fit
ProgramFitAfterTest ==
    << "params", "datamodule", "prepare_data", "setup_fit", "setup_test",
       "take_sample", "plot", "constants", "subsample_train", "subsample_val",
       "subsample_test", "load_model", "collect_init", "train_loop",
       "test_loop", "merge", "clf_fit", "clf_predict", "clf_report",
       "make_task", "make_trainer", "trainer_test", "trainer_fit" >>

\* the cells with setup('fit') ahead of prepare_data
ProgramSetupBeforeDownload ==
    << "params", "datamodule", "setup_fit", "prepare_data", "setup_test",
       "take_sample", "plot", "constants", "subsample_train", "subsample_val",
       "subsample_test", "load_model", "collect_init", "train_loop",
       "test_loop", "merge", "clf_fit", "clf_predict", "clf_report",
       "make_task", "make_trainer", "trainer_fit", "trainer_test" >>

\* the statements of the code cells, top to bottom
Program ==
    << "params", "datamodule", "prepare_data", "setup_fit", "setup_test",
       "take_sample", "plot", "constants", "subsample_train", "subsample_val",
       "subsample_test", "load_model", "collect_init", "train_loop",
       "test_loop", "merge", "clf_fit", "clf_predict", "clf_report",
       "make_task", "make_trainer", "trainer_fit", "trainer_test" >>

At(stmt, at) == [stmt |-> stmt, at |-> at]

\* the statement that follows stmt, "done" after the last one
After(stmt) ==
    LET i == CHOOSE k \in 1..Len(Program) : Program[k] = stmt
    IN  IF i < Len(Program) THEN At(Program[i + 1], "start") ELSE At("done", "start")

(* ---------------------- the dataset and the data module ---------------- *)

\* QuakeSet(split=...).data : the items of a split as the file lists them
LoadSplit(split) ==
    [i \in 1..fileSizes[split] |->
        [key |-> Base(split) + i,
         label |-> IF Base(split) + i \in positives THEN 1 ELSE 0]]

\* the 4-channel image __getitem__ reads for an item
Image(key) == [c \in 1..NumChannels |-> key * NumChannels + c]

\* collate: the batch a dataloader builds from the items it yields
Collate(items) ==
    [image |-> [i \in 1..Len(items) |-> Image(items[i].key)],
     label |-> [i \in 1..Len(items) |-> items[i].label]]

\* the train dataloader shuffles, the others do not
Shuffles(split) == split = "train"

\* orders in which the dataloader of a split yields its items
LoaderOrders(split, data) ==
    IF Shuffles(split) THEN Perms(data) ELSE {data}

(* ------------------------ the feature extractor ------------------------ *)

\* resnet50(ResNet50_Weights.SENTINEL1_ALL_MOCO): a module in training mode
Resnet50Pretrained ==
    [loaded |-> TRUE, training |-> TRUE, running |-> 0, grad |-> FALSE]

\* nn.Module.eval()
ModuleEval(m) == [m EXCEPT !.training = FALSE]

\* the extractor left in training mode
LoadedExtractorNoEval == Resnet50Pretrained

\* rn_model of line 254: resnet50(...).to(DEVICE).eval()
LoadedExtractor == ModuleEval(Resnet50Pretrained)

\* the weights' input transform: a per-channel normalisation
TransformMean == <<12, 20>>

ModelTransform(x) == [c \in 1..Len(x) |-> x[c] - TransformMean[c]]

\* the statistic a normalisation layer computes from the batch it is given
BatchStat(xs) == Len(xs) % StatsMod

\* the feature vector of one 2-channel image under a normalisation statistic
Features(x, stat) == [k \in 1..EmbWidth |-> k * x[1] + (k + 1) * x[2] + stat]

\* rn_model(xs): the outputs and the module afterwards.  In evaluation mode
\* the running statistics are used and kept; in training mode the batch
\* statistics are used and folded into the running ones.
Forward(m, xs, grad_enabled) ==
    LET stat == IF m.training THEN BatchStat(xs) ELSE m.running
    IN  [out |-> [i \in 1..Len(xs) |-> Features(xs[i], stat)],
         model |-> [m EXCEPT
                      !.running = IF m.training
                                  THEN (@ + BatchStat(xs) + 1) % StatsMod
                                  ELSE @,
                      !.grad = @ \/ grad_enabled]]

(* -------------------------------- infer -------------------------------- *)

\* infer with the post-event image sliced from the pre-event channels
InferPostFromPreChannels(m, b) ==
    LET img == b.image
        pre == [i \in 1..Len(img) |-> ModelTransform(SubSeq(img[i], 1, HalfChannels))]
        post == [i \in 1..Len(img) |-> ModelTransform(SubSeq(img[i], 1, HalfChannels))]
        f1 == Forward(m, pre, FALSE)
        f2 == Forward(f1.model, post, FALSE)
    IN  [embs |-> [i \in 1..Len(img) |-> f1.out[i] \o f2.out[i]],
         labels |-> b.label,
         model |-> f2.model]

\* infer returning the labels in reverse order
InferLabelsReversed(m, b) ==
    LET img == b.image
        pre == [i \in 1..Len(img) |-> ModelTransform(SubSeq(img[i], 1, HalfChannels))]
        post == [i \in 1..Len(img) |->
                    ModelTransform(SubSeq(img[i], HalfChannels + 1, Len(img[i])))]
        f1 == Forward(m, pre, FALSE)
        f2 == Forward(f1.model, post, FALSE)
    IN  [embs |-> [i \in 1..Len(img) |-> f1.out[i] \o f2.out[i]],
         labels |-> [i \in 1..Len(b.label) |-> b.label[Len(b.label) + 1 - i]],
         model |-> f2.model]

\* infer(batch): the embeddings, the labels, and the extractor afterwards
Infer(m, b) ==
    LET img == b.image
        pre == [i \in 1..Len(img) |-> ModelTransform(SubSeq(img[i], 1, HalfChannels))]
        post == [i \in 1..Len(img) |->
                    ModelTransform(SubSeq(img[i], HalfChannels + 1, Len(img[i])))]
        f1 == Forward(m, pre, FALSE)
        f2 == Forward(f1.model, post, FALSE)
    IN  [embs |-> [i \in 1..Len(img) |-> f1.out[i] \o f2.out[i]],
         labels |-> b.label,
         model |-> f2.model]

\* a zip that loses the last pair
ZipDropLast(a, b) ==
    [i \in 1..(Min(Len(a), Len(b)) - 1) |-> <<a[i], b[i]>>]

\* zip(embs, labels): pairs up to the shorter of the two
Zip(a, b) == [i \in 1..Min(Len(a), Len(b)) |-> <<a[i], b[i]>>]

(* ----------------------------- subsampling ----------------------------- *)

\* n * PCT_SAMPLES rounded up
PctOfCeil(n) ==
    (n * PCT_SAMPLES_Num + PCT_SAMPLES_Den - 1) \div PCT_SAMPLES_Den

\* int(n * PCT_SAMPLES): the product rounded down
PctOf(n) == (n * PCT_SAMPLES_Num) \div PCT_SAMPLES_Den

\* data[: int(len(data) * PCT_SAMPLES)]
Subsample(data) == SubSeq(data, 1, PctOf(Len(data)))

(* ------------------------ defaultdict(list) ---------------------------- *)

\* d[k].append(v) on a defaultdict(list): a missing key is created first
DictAppend(d, k, v) ==
    IF k \in DOMAIN d
    THEN [d EXCEPT ![k] = Append(@, v)]
    ELSE [x \in DOMAIN d \cup {k} |-> IF x = k THEN <<v>> ELSE d[x]]

\* both loops storing under 'train'
EmbKeyAlwaysTrain(split) == "train"

\* the key the collection loop over a split's dataloader stores under
EmbKey(split) == split

(* ------------------------------- Init ---------------------------------- *)

NoParams ==
    [num_workers |-> 0, batch_size |-> 0, max_epochs |-> 0, fast_dev_run |-> FALSE]

NoModel ==
    [loaded |-> FALSE, training |-> FALSE, running |-> 0, grad |-> FALSE]

NoClf ==
    [fitted |-> FALSE, fitX |-> <<>>, fitY |-> <<>>,
     predicted |-> FALSE, predX |-> <<>>,
     reported |-> FALSE, reportY |-> <<>>]

NoTask ==
    [made |-> FALSE, trainer |-> FALSE, fitted |-> FALSE, tested |-> FALSE]

EmptyDict == <<>>

Init ==
    /\ pc = At(Program[1], "start")
    /\ raised = "none"
    /\ mock \in BOOLEAN
    /\ params = NoParams
    /\ fileSizes \in [Splits -> SplitSizes]
    /\ positives \in SUBSET EarthquakeKeys
    /\ prepared = FALSE
    /\ setupDone = {}
    /\ datasets = [s \in Splits |-> <<>>]
    /\ sample = <<>>
    /\ rn_model = NoModel
    /\ loader = <<>>
    /\ batch = Collate(<<>>)
    /\ inferOut = [embs |-> <<>>, labels |-> <<>>]
    /\ zipped = <<>>
    /\ j = 0
    /\ embeddings = EmptyDict
    /\ labels = EmptyDict
    /\ stacked = FALSE
    /\ clf = NoClf
    /\ task = NoTask
    /\ yielded = [s \in {"train", "test"} |-> <<>>]
    /\ stages = <<>>
    /\ events = <<>>

(* ------------------------------ actions -------------------------------- *)

env == <<mock, fileSizes, positives>>
dm == <<prepared, setupDone, datasets, sample>>
loopv == <<loader, batch, inferOut, zipped, j>>
coll == <<embeddings, labels, stacked>>

\* an exception ends the run
Fail(e) == pc' = At("failed", "start") /\ raised' = e

Goes(stmt) == pc' = After(stmt) /\ UNCHANGED raised

\* the stage of setup a split's dataset is created by
StageOf(split) == IF split = "test" THEN "test" ELSE "fit"

\* lines 130-133 with the nbmake mock of lines 119-126
ParamsCell ==
    /\ pc = At("params", "start")
    /\ params' = IF mock
                 THEN [num_workers |-> MockNumWorkers, batch_size |-> MockBatchSize,
                       max_epochs |-> MockMaxEpochs, fast_dev_run |-> TRUE]
                 ELSE [num_workers |-> DefaultNumWorkers, batch_size |-> DefaultBatchSize,
                       max_epochs |-> DefaultMaxEpochs, fast_dev_run |-> FALSE]
    /\ Goes("params")
    /\ UNCHANGED <<env, dm, rn_model, loopv, coll, clf, task, yielded, stages, events>>

\* lines 149-153: the data module is constructed, nothing is loaded yet
DataModuleCell ==
    /\ pc = At("datamodule", "start")
    /\ Goes("datamodule")
    /\ UNCHANGED <<env, params, dm, rn_model, loopv, coll, clf, task, yielded,
                   stages, events>>

\* line 163
PrepareData ==
    /\ pc = At("prepare_data", "start")
    /\ prepared' = TRUE
    /\ events' = Append(events, "prepare_data")
    /\ stages' = Append(stages, "download")
    /\ Goes("prepare_data")
    /\ UNCHANGED <<env, params, setupDone, datasets, sample, rn_model, loopv,
                   coll, clf, task, yielded>>

\* line 188
SetupFit ==
    /\ pc = At("setup_fit", "start")
    /\ events' = Append(events, "setup_fit")
    /\ stages' = Append(stages, "setup")
    /\ setupDone' = setupDone \cup {"fit"}
    /\ datasets' = [datasets EXCEPT !["train"] = LoadSplit("train"),
                                    !["val"] = LoadSplit("val")]
    /\ Goes("setup_fit")
    /\ UNCHANGED <<env, params, prepared, sample, rn_model, loopv, coll, clf,
                   task, yielded>>

\* line 189
SetupTest ==
    /\ pc = At("setup_test", "start")
    /\ events' = Append(events, "setup_test")
    /\ setupDone' = setupDone \cup {"test"}
    /\ datasets' = [datasets EXCEPT !["test"] = LoadSplit("test")]
    /\ Goes("setup_test")
    /\ UNCHANGED <<env, params, prepared, sample, rn_model, loopv, coll, clf,
                   task, yielded, stages>>

\* line 190: sample = datamodule.val_dataset[0]
TakeSample ==
    /\ pc = At("take_sample", "start")
    /\ events' = Append(events, "val_dataset")
    /\ IF "fit" \notin setupDone
       THEN Fail("AttributeError") /\ UNCHANGED sample
       ELSE IF datasets["val"] = <<>>
            THEN Fail("IndexError") /\ UNCHANGED sample
            ELSE sample' = <<datasets["val"][1]>> /\ Goes("take_sample")
    /\ UNCHANGED <<env, params, prepared, setupDone, datasets, rn_model, loopv,
                   coll, clf, task, yielded, stages>>

\* line 191
Plot ==
    /\ pc = At("plot", "start")
    /\ stages' = Append(stages, "plot")
    /\ Goes("plot")
    /\ UNCHANGED <<env, params, dm, rn_model, loopv, coll, clf, task, yielded,
                   events>>

\* lines 216-219: DEVICE and PCT_SAMPLES
ConstantsCell ==
    /\ pc = At("constants", "start")
    /\ Goes("constants")
    /\ UNCHANGED <<env, params, dm, rn_model, loopv, coll, clf, task, yielded,
                   stages, events>>

\* one of the three assignments of lines 229-237
SubsampleSplit(split) ==
    /\ events' = Append(events, split \o "_dataset")
    /\ IF StageOf(split) \notin setupDone
       THEN Fail("AttributeError") /\ UNCHANGED datasets
       ELSE /\ datasets' = [datasets EXCEPT ![split] = Subsample(@)]
            /\ Goes("subsample_" \o split)
    /\ UNCHANGED <<env, params, prepared, setupDone, sample, rn_model, loopv,
                   coll, clf, task, yielded, stages>>

\* lines 229-231
SubsampleTrain == pc = At("subsample_train", "start") /\ SubsampleSplit("train")

\* lines 232-234
SubsampleVal == pc = At("subsample_val", "start") /\ SubsampleSplit("val")

\* lines 235-237
SubsampleTest == pc = At("subsample_test", "start") /\ SubsampleSplit("test")

\* lines 253-254
LoadModel ==
    /\ pc = At("load_model", "start")
    /\ rn_model' = LoadedExtractor
    /\ Goes("load_model")
    /\ UNCHANGED <<env, params, dm, loopv, coll, clf, task, yielded, stages, events>>

\* lines 288-289
CollectInit ==
    /\ pc = At("collect_init", "start")
    /\ embeddings' = EmptyDict
    /\ labels' = EmptyDict
    /\ stages' = Append(stages, "infer")
    /\ Goes("collect_init")
    /\ UNCHANGED <<env, params, dm, rn_model, loopv, stacked, clf, task, yielded,
                   events>>

(* ----------------------- the two collection loops ---------------------- *)

LoopStmt(split) == split \o "_loop"

\* datamodule.<split>_dataloader() and the start of the iteration over it;
\* the sampler of a shuffling dataloader refuses an empty dataset
LoopOpen(split) ==
    /\ pc = At(LoopStmt(split), "start")
    /\ events' = Append(events, split \o "_dataloader")
    /\ IF StageOf(split) \notin setupDone
       THEN Fail("AttributeError") /\ UNCHANGED loader
       ELSE IF Shuffles(split) /\ datasets[split] = <<>>
            THEN Fail("ValueError") /\ UNCHANGED loader
            ELSE /\ \E order \in LoaderOrders(split, datasets[split]) :
                      loader' = order
                 /\ pc' = At(LoopStmt(split), "next")
                 /\ UNCHANGED raised
    /\ UNCHANGED <<env, params, dm, rn_model, batch, inferOut, zipped, j, coll,
                   clf, task, yielded, stages>>

\* the outer for: the next batch and infer(batch), or the end of the loop
LoopNext(split) ==
    /\ pc = At(LoopStmt(split), "next")
    /\ IF loader = <<>>
       THEN /\ pc' = After(LoopStmt(split))
            /\ UNCHANGED <<loader, batch, inferOut, zipped, j, rn_model, yielded>>
       ELSE LET n == Min(params.batch_size, Len(loader))
                items == SubSeq(loader, 1, n)
                b == Collate(items)
                r == Infer(rn_model, b)
                z == Zip(r.embs, r.labels)
            IN  /\ loader' = SubSeq(loader, n + 1, Len(loader))
                /\ batch' = b
                /\ inferOut' = [embs |-> r.embs, labels |-> r.labels]
                /\ rn_model' = r.model
                /\ zipped' = z
                /\ j' = 0
                /\ yielded' = [yielded EXCEPT ![split] =
                                  @ \o [i \in 1..n |-> items[i].key]]
                /\ pc' = IF z = <<>>
                         THEN At(LoopStmt(split), "next")
                         ELSE At(LoopStmt(split), "emb")
    /\ UNCHANGED <<raised, env, params, dm, coll, clf, task, stages, events>>

\* the inner for, first statement: embeddings[...].append(emb)
LoopEmb(split) ==
    /\ pc = At(LoopStmt(split), "emb")
    /\ embeddings' = DictAppend(embeddings, EmbKey(split), zipped[j + 1][1])
    /\ pc' = At(LoopStmt(split), "lab")
    /\ UNCHANGED <<raised, env, params, dm, rn_model, loopv, labels, stacked,
                   clf, task, yielded, stages, events>>

\* the inner for, second statement: labels[...].append(lab)
LoopLab(split) ==
    /\ pc = At(LoopStmt(split), "lab")
    /\ labels' = DictAppend(labels, EmbKey(split), zipped[j + 1][2])
    /\ j' = j + 1
    /\ pc' = IF j + 1 < Len(zipped)
             THEN At(LoopStmt(split), "emb")
             ELSE At(LoopStmt(split), "next")
    /\ UNCHANGED <<raised, env, params, dm, rn_model, loader, batch, inferOut,
                   zipped, embeddings, stacked, clf, task, yielded, stages, events>>

\* line 291
TrainOpen == LoopOpen("train")
TrainNext == LoopNext("train")
\* line 292-293
TrainEmb == LoopEmb("train")
\* line 294
TrainLab == LoopLab("train")
\* line 296
TestOpen == LoopOpen("test")
TestNext == LoopNext("test")
\* line 297-298
TestEmb == LoopEmb("test")
\* line 299
TestLab == LoopLab("test")

\* lines 301-302: every list becomes one array, under the same key
Merge ==
    /\ pc = At("merge", "start")
    /\ embeddings' = [k \in DOMAIN embeddings |-> embeddings[k]]
    /\ labels' = [k \in DOMAIN labels |-> labels[k]]
    /\ stacked' = TRUE
    /\ Goes("merge")
    /\ UNCHANGED <<env, params, dm, rn_model, loopv, clf, task, yielded, stages,
                   events>>

(* ------------------------- the classical model ------------------------- *)

\* lines 319-320
ClfFit ==
    /\ pc = At("clf_fit", "start")
    /\ stages' = Append(stages, "fit_classical")
    /\ IF "train" \notin DOMAIN embeddings \/ "train" \notin DOMAIN labels
       THEN Fail("KeyError") /\ UNCHANGED clf
       ELSE /\ clf' = [clf EXCEPT !.fitted = TRUE,
                                  !.fitX = embeddings["train"],
                                  !.fitY = labels["train"]]
            /\ Goes("clf_fit")
    /\ UNCHANGED <<env, params, dm, rn_model, loopv, coll, task, yielded, events>>

\* line 322
ClfPredict ==
    /\ pc = At("clf_predict", "start")
    /\ stages' = Append(stages, "evaluate_classical")
    /\ IF "test" \notin DOMAIN embeddings
       THEN Fail("KeyError") /\ UNCHANGED clf
       ELSE /\ clf' = [clf EXCEPT !.predicted = TRUE, !.predX = embeddings["test"]]
            /\ Goes("clf_predict")
    /\ UNCHANGED <<env, params, dm, rn_model, loopv, coll, task, yielded, events>>

\* line 323
ClfReport ==
    /\ pc = At("clf_report", "start")
    /\ IF "test" \notin DOMAIN labels
       THEN Fail("KeyError") /\ UNCHANGED clf
       ELSE /\ clf' = [clf EXCEPT !.reported = TRUE, !.reportY = labels["test"]]
            /\ Goes("clf_report")
    /\ UNCHANGED <<env, params, dm, rn_model, loopv, coll, task, yielded, stages,
                   events>>

(* --------------------------- the deep model ---------------------------- *)

\* lines 348-350
MakeTask ==
    /\ pc = At("make_task", "start")
    /\ task' = [task EXCEPT !.made = TRUE]
    /\ Goes("make_task")
    /\ UNCHANGED <<env, params, dm, rn_model, loopv, coll, clf, yielded, stages,
                   events>>

\* lines 360-376
MakeTrainer ==
    /\ pc = At("make_trainer", "start")
    /\ task' = [task EXCEPT !.trainer = TRUE]
    /\ Goes("make_trainer")
    /\ UNCHANGED <<env, params, dm, rn_model, loopv, coll, clf, yielded, stages,
                   events>>

\* line 386: the trainer may run the data module's setup hook for "fit"
\* again, which loads the train and validation splits anew
TrainerFit ==
    /\ pc = At("trainer_fit", "start")
    /\ stages' = Append(stages, "fit_deep")
    /\ events' = Append(events, "trainer_fit")
    /\ task' = [task EXCEPT !.fitted = TRUE]
    /\ \E again \in BOOLEAN :
          datasets' = IF again
                      THEN [datasets EXCEPT !["train"] = LoadSplit("train"),
                                            !["val"] = LoadSplit("val")]
                      ELSE datasets
    /\ Goes("trainer_fit")
    /\ UNCHANGED <<env, params, prepared, setupDone, sample, rn_model, loopv,
                   coll, clf, yielded>>

\* line 396
TrainerTest ==
    /\ pc = At("trainer_test", "start")
    /\ stages' = Append(stages, "evaluate_deep")
    /\ events' = Append(events, "trainer_test")
    /\ task' = [task EXCEPT !.tested = TRUE]
    /\ Goes("trainer_test")
    /\ UNCHANGED <<env, params, dm, rn_model, loopv, coll, clf, yielded>>

Next ==
    \/ ParamsCell
    \/ DataModuleCell
    \/ PrepareData
    \/ SetupFit
    \/ SetupTest
    \/ TakeSample
    \/ Plot
    \/ ConstantsCell
    \/ SubsampleTrain
    \/ SubsampleVal
    \/ SubsampleTest
    \/ LoadModel
    \/ CollectInit
    \/ TrainOpen
    \/ TrainNext
    \/ TrainEmb
    \/ TrainLab
    \/ TestOpen
    \/ TestNext
    \/ TestEmb
    \/ TestLab
    \/ Merge
    \/ ClfFit
    \/ ClfPredict
    \/ ClfReport
    \/ MakeTask
    \/ MakeTrainer
    \/ TrainerFit
    \/ TrainerTest

Spec == Init /\ [][Next]_vars

(* ------------------------------ properties ----------------------------- *)

LoopSplits == {"train", "test"}

\* the list stored under key k, empty when the key was never created
Entries(d, k) == IF k \in DOMAIN d THEN d[k] ELSE <<>>

\* the label the dataset file gives an item
LabelOfKey(k) == IF k \in positives THEN 1 ELSE 0

\* the extractor's output for one transformed 2-channel image, computed with
\* the statistics of the freshly loaded extractor
ExtractOne(a, b) ==
    [k \in 1..EmbWidth |->
        k * (a - TransformMean[1]) + (k + 1) * (b - TransformMean[2])]

\* the embedding of an item: pre-event half, then post-event half
RowOfImage(img) == ExtractOne(img[1], img[2]) \o ExtractOne(img[3], img[4])

RowOfKey(k) == RowOfImage(Image(k))

\* the keys of the items of the current batch: the last ones yielded
BatchKeys ==
    LET y == yielded[CHOOSE s \in LoopSplits : pc.stmt = LoopStmt(s)]
        B == Len(batch.image)
    IN  [i \in 1..B |-> y[Len(y) - B + i]]

InInnerLoop ==
    /\ pc.stmt \in {LoopStmt(s) : s \in LoopSplits}
    /\ pc.at \in {"emb", "lab"}

\* C1: for a batch of B samples with 4-channel images, infer returns B rows;
\* row i is the extractor's output for the transformed channels 1..2 of
\* sample i followed by its output for the transformed channels 3..4, so it
\* is twice the extractor's width and uses every channel in one half only.
C1_InferConcatenatesPrePost ==
    (InInnerLoop /\ \A i \in 1..Len(batch.image) : Len(batch.image[i]) = NumChannels)
    => /\ Len(inferOut.embs) = Len(batch.image)
       /\ \A i \in 1..Len(batch.image) :
            /\ Len(inferOut.embs[i]) = 2 * EmbWidth
            /\ SubSeq(inferOut.embs[i], 1, EmbWidth)
                 = ExtractOne(batch.image[i][1], batch.image[i][2])
            /\ SubSeq(inferOut.embs[i], EmbWidth + 1, 2 * EmbWidth)
                 = ExtractOne(batch.image[i][3], batch.image[i][4])

C1_Witness ==
    /\ InInnerLoop
    /\ Len(batch.image) = 2
    /\ Len(inferOut.embs) = 2

\* C2: the labels infer returns are the batch's labels, same length, order
\* and values, and the batch's labels are still those of the items yielded.
C2_InferReturnsBatchLabels ==
    InInnerLoop
    => /\ Len(inferOut.labels) = Len(batch.label)
       /\ \A i \in 1..Len(batch.label) :
            /\ inferOut.labels[i] = batch.label[i]
            /\ batch.label[i] = LabelOfKey(BatchKeys[i])

C2_Witness ==
    /\ InInnerLoop
    /\ Len(batch.label) = 2
    /\ batch.label[1] # batch.label[2]
    /\ inferOut.labels = batch.label

\* C3: under the smoke-test mock parameters the run never raises, whatever
\* the sizes of the three splits.
C3_MockRunNeverRaises == mock => raised = "none"

\* C4: once the collection cell has run, embeddings and labels both have
\* exactly the keys 'train' and 'test', also when a dataloader yielded no batch.
C4_BothKeysAfterCollection ==
    stacked => /\ DOMAIN embeddings = {"train", "test"}
               /\ DOMAIN labels = {"train", "test"}

StageOrder ==
    << "download", "setup", "plot", "infer", "fit_classical",
       "evaluate_classical", "fit_deep", "evaluate_deep" >>

\* C5: the stages run in the order download, setup, plot, infer, fit and
\* evaluation of the classical model, fit and evaluation of the deep model,
\* each at most once, and a run that reaches the end has run all of them.
C5_StagesInOrder ==
    /\ IsPrefix(stages, StageOrder)
    /\ pc.stmt = "done" => stages = StageOrder

C5_Witness == pc.stmt = "done" /\ Len(stages) = Len(StageOrder)

\* every occurrence of event b has an occurrence of event a before it
Precedes(a, b) ==
    \A i \in 1..Len(events) :
        events[i] = b => \E k \in 1..(i - 1) : events[k] = a

FitUses == {"train_dataset", "val_dataset", "train_dataloader", "trainer_fit"}
TestUses == {"test_dataset", "test_dataloader", "trainer_test"}

\* C6: setup('fit') precedes every use of the train and validation datasets,
\* of train_dataloader() and of trainer.fit; setup('test') precedes every use
\* of the test dataset, of test_dataloader() and of trainer.test; and
\* prepare_data precedes both setup calls.
C6_SetupBeforeUse ==
    /\ \A u \in FitUses : Precedes("setup_fit", u)
    /\ \A u \in TestUses : Precedes("setup_test", u)
    /\ Precedes("prepare_data", "setup_fit")
    /\ Precedes("prepare_data", "setup_test")

C6_Witness ==
    /\ pc.stmt = "done"
    /\ (FitUses \cup TestUses) \subseteq Range(events)

\* C7: a subsampling assignment leaves in its split exactly the first
\* floor(n * 0.1) of the n items it held, in their order, and leaves the
\* other two splits as they were.
C7_SubsampleKeepsFirstTenth ==
    [][\A s \in Splits :
          (pc = At("subsample_" \o s, "start") /\ raised' = "none")
          => LET n == Len(datasets[s])
                 k == Len(datasets'[s])
             IN  /\ k * PCT_SAMPLES_Den <= n * PCT_SAMPLES_Num
                 /\ n * PCT_SAMPLES_Num < (k + 1) * PCT_SAMPLES_Den
                 /\ \A i \in 1..k : datasets'[s][i] = datasets[s][i]
                 /\ \A t \in Splits \ {s} : datasets'[t] = datasets[t]]_vars

C7_Witness ==
    /\ pc = At("load_model", "start")
    /\ fileSizes["train"] = 19 /\ Len(datasets["train"]) = 1
    /\ fileSizes["val"] = 20 /\ Len(datasets["val"]) = 2
    /\ fileSizes["test"] = 9 /\ Len(datasets["test"]) = 0

\* the statements that run after the collection loop of a split has ended
AfterLoop(s) ==
    (IF s = "train" THEN {"test_loop"} ELSE {})
    \cup {"merge", "clf_fit", "clf_predict", "clf_report", "make_task",
          "make_trainer", "trainer_fit", "trainer_test", "done"}

\* C8: after every completed inner iteration the two lists of a split have
\* the same length and entry i of both comes from the i-th sample the
\* dataloader yielded; when the loop has ended the lists hold one entry per
\* yielded sample, none skipped or repeated.
C8_ListsAlignedWithYielded ==
    \A s \in LoopSplits :
        LET e == Entries(embeddings, s)
            l == Entries(labels, s)
            y == yielded[s]
        IN  /\ pc.at # "lab" => Len(e) = Len(l)
            /\ Len(e) <= Len(y) /\ Len(l) <= Len(y)
            /\ \A i \in 1..Len(e) : e[i] = RowOfKey(y[i])
            /\ \A i \in 1..Len(l) : l[i] = LabelOfKey(y[i])
            /\ pc.stmt \in AfterLoop(s) => Len(e) = Len(y)

C8_Witness ==
    /\ pc = At("merge", "start")
    /\ Len(Entries(embeddings, "train")) = 2
    /\ Len(Entries(labels, "test")) = 2
    /\ yielded["train"][1] > yielded["train"][2]

KeysOf(split) == {Base(split) + i : i \in 1..fileSizes[split]}

\* C9: entries under 'train' come from train items only and entries under
\* 'test' from test items only; the classifier is fitted on the 'train'
\* entries only, predicts on the 'test' embeddings and is compared with the
\* 'test' labels, so no test item contributes to fitting.
C9_SplitsStaySeparate ==
    /\ \A s \in LoopSplits :
         \A i \in 1..Len(Entries(embeddings, s)) :
            /\ \E k \in KeysOf(s) : embeddings[s][i] = RowOfKey(k)
            /\ \A k \in KeysOf(CHOOSE t \in LoopSplits : t # s) :
                  embeddings[s][i] # RowOfKey(k)
    /\ clf.fitted
       => /\ clf.fitX = Entries(embeddings, "train")
          /\ clf.fitY = Entries(labels, "train")
          /\ \A i \in 1..Len(clf.fitX) :
                \A k \in KeysOf("test") : clf.fitX[i] # RowOfKey(k)
    /\ clf.predicted => clf.predX = Entries(embeddings, "test")
    /\ clf.reported => clf.reportY = Entries(labels, "test")

C9_Witness ==
    /\ clf.reported
    /\ Len(clf.fitX) = 2
    /\ Len(clf.predX) = 2
    /\ Len(clf.reportY) = 2

\* C10: once loaded, the extractor stays as loaded (evaluation mode, same
\* statistics, no gradient recorded) through every infer call, and the rows
\* infer returns for a batch depend on the batch's items alone, not on the
\* batches processed before or on the other items of the batch.
C10_ExtractorUnchanged ==
    /\ rn_model.loaded
       => /\ ~rn_model.training
          /\ rn_model.running = 0
          /\ ~rn_model.grad
    /\ InInnerLoop
       => \A i \in 1..Len(inferOut.embs) : inferOut.embs[i] = RowOfKey(BatchKeys[i])

C10_Witness ==
    /\ pc = At("test_loop", "lab")
    /\ Len(yielded["train"]) = 2
    /\ Len(yielded["test"]) = 2
    /\ rn_model.loaded

====
